---- MODULE Spec2Model ----
(***************************************************************************)
(* Model of fixedheap/heap.py: a fixed-size container of HeapNode(key,     *)
(* value) kept by one of five sorters (Min, Max, MinHeap, MaxHeap, Random) *)
(* chosen by name through HeapFactory.get, filled by Heap.append and read  *)
(* through the generator Heap.top_n / Heap.__iter__.                       *)
(***************************************************************************)
EXTENDS Integers, Sequences, FiniteSets

VARIABLES
    sort_type, \* the name handed to HeapFactory.get (the empty name before the call)
    pc,        \* "start" | "ctor" (get returned a constructor) | "heap" | "KeyError"
    sorter,    \* class of the sorter instance bound by get, "None" before
    limit,     \* Heap.limit
    nodes,     \* Heap.nodes: sequence of HeapNode records [key, value]
    hist,      \* every node handed to sorter.append so far, in call order
    genpc,     \* generator of top_n: "none" | "created" | "running" | "done"
    pending,   \* items of the sorted copy the generator has still to yield
    emitted,   \* nodes whose keys the generator has yielded, in order
    snapLen,   \* Len(hist) at the moment the generator was obtained and, once it
               \* has run, at the moment it called sorter.sort
    drained,   \* TRUE once a generator was obtained after an earlier one ran to its end
    given,     \* the aggregator argument of ctor: "None" (left out) | "sum"
    aggregator, \* Heap.aggregator: "None" before the heap is built | "dummy" | "sum"
    dataKind,  \* what the caller passes as data: "number" | "collection"
    datas,     \* the data of every append that reached the sorter, in call order
    other,     \* a second heap built by the same constructor: [built, limit,
               \* list (which list object its nodes field refers to), appends]
    nodes2     \* the list object number 2 (number 1 is nodes)

\* what no operation on an existing heap changes
fixed == <<sort_type, sorter, limit, given, aggregator, dataKind>>

vars == <<pc, nodes, hist, genpc, pending, emitted, snapLen, drained,
          datas, other, nodes2, fixed>>

----------------------------------------------------------------------------
(* Bounds of the model *)

MaxAppends == 4
MaxValue == 2
MaxLimit == 2

\* Keys are opaque: a call brings a key no earlier call used, or (the second
\* call) repeats the key of the first
KeyChoices(h) == IF Len(h) = 1 THEN {1, 2} ELSE {Len(h) + 1}
Values == 1..MaxValue

\* collections of numbers a caller passes as data: two of them have the same
\* sum, and they compare as lists in another order than their sums
Collections == { <<1>>, <<1, 2>>, <<2, 1>> }
Limits == (0 - 1)..MaxLimit

----------------------------------------------------------------------------
(* HeapNode: namedtuple (key, value); __eq__ and __lt__ look at value only, *)
(* the other comparisons are the ones inherited from tuple.                 *)

HeapNode(k, v) == [key |-> k, value |-> v]

\* the values of this heap are lists: collections went through Aggregators.dummy
ListScores == dataKind = "collection" /\ aggregator = "dummy"

\* list.__lt__: the first differing item decides, a proper prefix is less
RECURSIVE LexLt(_, _)
LexLt(x, y) ==
    IF y = <<>> THEN FALSE
    ELSE IF x = <<>> THEN TRUE
    ELSE IF Head(x) = Head(y) THEN LexLt(Tail(x), Tail(y))
    ELSE Head(x) < Head(y)

\* x < y on two values of a heap (numbers, or lists)
ValueLt(x, y) == IF ListScores THEN LexLt(x, y) ELSE x < y

NodeLt(a, b) == ValueLt(a.value, b.value)

\* tuple.__gt__ on (key, value): first differing field decides
NodeTupleGt(a, b) ==
    IF a.key # b.key THEN a.key > b.key ELSE ValueLt(b.value, a.value)

----------------------------------------------------------------------------
(* Sequence helpers standing for list.pop(i) and list.append *)

\* variant of Pop: everything from position i on is dropped (del items[i:])
PopFrom(items, i) == SubSeq(items, 1, i - 1)

\* list.pop(i) with a 1-based position
Pop(items, i) ==
    [j \in 1..(Len(items) - 1) |-> IF j < i THEN items[j] ELSE items[j + 1]]

\* variant of IndexMax: the last node of maximal value, not the first
IndexMaxLast(items) ==
    CHOOSE i \in 1..Len(items) :
        /\ \A j \in 1..Len(items) : ~ValueLt(items[i].value, items[j].value)
        /\ \A j \in (i + 1)..Len(items) : ValueLt(items[j].value, items[i].value)

\* variant of IndexMax: min was passed where max was meant
IndexMaxAsMin(items) ==
    CHOOSE i \in 1..Len(items) :
        /\ \A j \in 1..Len(items) : ~ValueLt(items[j].value, items[i].value)
        /\ \A j \in 1..(i - 1) : ValueLt(items[i].value, items[j].value)

\* BaseSorter.index(max, items): position of the first node of maximal value
IndexMax(items) ==
    CHOOSE i \in 1..Len(items) :
        /\ \A j \in 1..Len(items) : ~ValueLt(items[i].value, items[j].value)
        /\ \A j \in 1..(i - 1) : ValueLt(items[j].value, items[i].value)

\* variant of IndexMin: the last node of minimal value, not the first
IndexMinLast(items) ==
    CHOOSE i \in 1..Len(items) :
        /\ \A j \in 1..Len(items) : ~ValueLt(items[j].value, items[i].value)
        /\ \A j \in (i + 1)..Len(items) : ValueLt(items[i].value, items[j].value)

\* variant of IndexMin: max was passed where min was meant
IndexMinAsMax(items) ==
    CHOOSE i \in 1..Len(items) :
        /\ \A j \in 1..Len(items) : ~ValueLt(items[i].value, items[j].value)
        /\ \A j \in 1..(i - 1) : ValueLt(items[j].value, items[i].value)

\* BaseSorter.index(min, items): position of the first node of minimal value
IndexMin(items) ==
    CHOOSE i \in 1..Len(items) :
        /\ \A j \in 1..Len(items) : ~ValueLt(items[j].value, items[i].value)
        /\ \A j \in 1..(i - 1) : ValueLt(items[i].value, items[j].value)

\* heapq._siftdown(heap, 0, pos) with 1-based positions: parent of p is p \div 2
RECURSIVE SiftDown(_, _, _)
SiftDown(heap, pos, newitem) ==
    IF pos > 1 /\ NodeLt(newitem, heap[pos \div 2])
    THEN SiftDown([heap EXCEPT ![pos] = heap[pos \div 2]], pos \div 2, newitem)
    ELSE [heap EXCEPT ![pos] = newitem]

\* heapq.heappush(heap, item): append, then sift the new item towards the root
HeapPush(heap, item) ==
    SiftDown(Append(heap, item), Len(heap) + 1, item)

----------------------------------------------------------------------------
(* sorted(), min(), max() and heapq.nsmallest / heapq.nlargest *)

\* insert x into an ascending list before the first element x is less than
RECURSIVE InsertAsc(_, _)
InsertAsc(s, x) ==
    IF s = <<>> THEN <<x>>
    ELSE IF NodeLt(x, Head(s)) THEN <<x>> \o s
    ELSE <<Head(s)>> \o InsertAsc(Tail(s), x)

\* sorted(items): stable, uses __lt__ only
RECURSIVE SortedAsc(_)
SortedAsc(items) ==
    IF items = <<>> THEN <<>>
    ELSE InsertAsc(SortedAsc(SubSeq(items, 1, Len(items) - 1)), items[Len(items)])

\* insert x into a descending list before the first element less than x
RECURSIVE InsertDesc(_, _)
InsertDesc(s, x) ==
    IF s = <<>> THEN <<x>>
    ELSE IF NodeLt(Head(s), x) THEN <<x>> \o s
    ELSE <<Head(s)>> \o InsertDesc(Tail(s), x)

\* sorted(items, reverse=True): stable, equal nodes keep their original order
RECURSIVE SortedDesc(_)
SortedDesc(items) ==
    IF items = <<>> THEN <<>>
    ELSE InsertDesc(SortedDesc(SubSeq(items, 1, Len(items) - 1)), items[Len(items)])

\* min(it): first item no other item is less than (__lt__)
MinItem(items) ==
    items[CHOOSE i \in 1..Len(items) :
        /\ \A j \in 1..Len(items) : ~NodeLt(items[j], items[i])
        /\ \A j \in 1..(i - 1) : NodeLt(items[i], items[j])]

\* max(it): first item no other item is greater than (tuple __gt__)
MaxItem(items) ==
    items[CHOOSE i \in 1..Len(items) :
        /\ \A j \in 1..Len(items) : ~NodeTupleGt(items[j], items[i])
        /\ \A j \in 1..(i - 1) : NodeTupleGt(items[i], items[j])]

Prefix(s, n) == SubSeq(s, 1, IF n < 0 THEN 0 ELSE IF n > Len(s) THEN Len(s) ELSE n)

\* variant of NSmallest: the sort runs with reverse=True
NSmallestDescending(n, items) == Prefix(SortedDesc(items), n)

\* heapq.nsmallest(n, items)
NSmallest(n, items) ==
    IF n = 1 THEN (IF items = <<>> THEN <<>> ELSE <<MinItem(items)>>)
    ELSE Prefix(SortedAsc(items), n)

\* variant of NLargest: the sort runs without reverse=True
NLargestAscending(n, items) == Prefix(SortedAsc(items), n)

\* heapq.nlargest(n, items)
NLargest(n, items) ==
    IF n = 1 THEN (IF items = <<>> THEN <<>> ELSE <<MaxItem(items)>>)
    ELSE Prefix(SortedDesc(items), n)

----------------------------------------------------------------------------
(* SortType and HeapFactory.get.  A name is a sequence of ASCII codes so    *)
(* that str.upper() is computed and not assumed.                            *)

\* str.upper() on one ASCII character: a..z (97..122) map to A..Z (65..90)
UpperChar(c) == IF c >= 97 /\ c <= 122 THEN c - 32 ELSE c

\* str.upper()
Upper(name) == [i \in 1..Len(name) |-> UpperChar(name[i])]

\* member names of the enum SortType and the class each one holds
SortType ==
    [n \in { <<77, 73, 78>>,                                \* MIN
             <<77, 65, 88>>,                                \* MAX
             <<77, 73, 78, 95, 72, 69, 65, 80>>,            \* MIN_HEAP
             <<77, 65, 88, 95, 72, 69, 65, 80>>,            \* MAX_HEAP
             <<82, 65, 78, 68, 79, 77>> }                   \* RANDOM
     |-> CASE n = <<77, 73, 78>> -> "Min"
           [] n = <<77, 65, 88>> -> "Max"
           [] n = <<77, 73, 78, 95, 72, 69, 65, 80>> -> "MinHeap"
           [] n = <<77, 65, 88, 95, 72, 69, 65, 80>> -> "MaxHeap"
           [] n = <<82, 65, 78, 68, 79, 77>> -> "Random"]

\* names a caller may pass to get
SortTypeNames ==
    { <<109, 105, 110>>,                                    \* min
      <<77, 97, 120>>,                                      \* Max
      <<109, 105, 110, 95, 104, 101, 97, 112>>,             \* min_heap
      <<77, 65, 88, 95, 72, 69, 65, 80>>,                   \* MAX_HEAP
      <<114, 97, 110, 100, 111, 109>>,                      \* random
      <<109, 97, 120, 104, 101, 97, 112>>,                  \* maxheap
      <<109, 97, 120, 32>>,                                 \* "max "
      <<>> }                                                \* ""

\* variant of Get: a name that is no member falls back to Max
GetFallback(name) ==
    /\ pc = "start"
    /\ sort_type' = name
    /\ sorter' = IF Upper(name) \in DOMAIN SortType THEN SortType[Upper(name)] ELSE "Max"
    /\ pc' = "ctor"
    /\ UNCHANGED <<limit, nodes, hist, genpc, pending, emitted, snapLen, drained>>
    /\ UNCHANGED <<given, aggregator, dataKind, datas, other, nodes2>>

\* SortType[sort_type.upper()] raises KeyError for a name that is no member
Get(name) ==
    /\ pc = "start"
    /\ sort_type' = name
    /\ IF Upper(name) \in DOMAIN SortType
       THEN /\ sorter' = SortType[Upper(name)]
            /\ pc' = "ctor"
       ELSE /\ sorter' = sorter
            /\ pc' = "KeyError"
    /\ UNCHANGED <<limit, nodes, hist, genpc, pending, emitted, snapLen, drained>>
    /\ UNCHANGED <<given, aggregator, dataKind, datas, other, nodes2>>

----------------------------------------------------------------------------
(* Heap *)

\* aggregators a caller passes to ctor: none, or one that sums as the demo does
AggregatorArgs == {"None", "sum"}

\* variant of DefaultAggregator: a heap built without an aggregator sums
DefaultAggregatorSum(agg) == IF agg = "None" THEN "sum" ELSE agg

\* aggregator or Aggregators.dummy
DefaultAggregator(agg) == IF agg = "None" THEN "dummy" ELSE agg

\* variant of NewList: one list object serves every heap (a class attribute
\* or a default argument in the place of self.nodes = [])
SharedList(allocated) == 1

\* self.nodes = []: a list object of its own, numbered after those that exist
NewList(allocated) == allocated + 1

\* ctor(limit, aggregator) -> Heap(sorter, limit, aggregator): stores its
\* arguments, checks nothing; its list is list number NewList(0) = 1, nodes
Ctor(l, agg) ==
    /\ pc = "ctor"
    /\ pc' = "heap"
    /\ limit' = l
    /\ nodes' = <<>>
    /\ given' = agg
    /\ aggregator' = DefaultAggregator(agg)
    /\ UNCHANGED <<sort_type, sorter, dataKind, hist, genpc, pending, emitted,
                   snapLen, drained, datas, other, nodes2>>

\* two heaps: the constructor get returned is called twice (cls2 = sorter,
\* both heaps hold the one sorter instance of that get call), or the second
\* heap comes from the constructor of another get call (its sorter is cls2)
CtorTwice(l, l2, agg, cls2) ==
    /\ pc = "ctor"
    /\ pc' = "heap"
    /\ limit' = l
    /\ nodes' = <<>>
    /\ given' = agg
    /\ aggregator' = DefaultAggregator(agg)
    /\ other' = [built |-> TRUE, sorter |-> cls2, limit |-> l2,
                 list |-> NewList(1), appends |-> 0]
    /\ nodes2' = <<>>
    /\ UNCHANGED <<sort_type, sorter, dataKind, hist, genpc, pending, emitted,
                   snapLen, drained, datas>>

\* variant of ReachedLimit: the limit is reached one node late
ReachedLimitOffByOne(l, items) == l + 1 < Len(items)

\* variant of ReachedLimit: the limit is reached one node early
ReachedLimitAtLimit(l, items) == l <= Len(items)

\* variant of ReachedLimit: a limit that is not positive is never reached
ReachedLimitPositiveOnly(l, items) == 0 < l /\ l < Len(items)

\* Heap.reached_limit for a list of the given contents
ReachedLimit(l, items) == l < Len(items)

\* Aggregators.dummy, the aggregator of a heap built without one
Dummy(o) == o

\* Aggregators.sum / lambda x: sum(x): the sum of the items of a collection
RECURSIVE Sum(_)
Sum(obj) == IF obj = <<>> THEN 0 ELSE Head(obj) + Sum(Tail(obj))

\* self.aggregator(data)
Aggregate(agg, data) == IF agg = "sum" THEN Sum(data) ELSE Dummy(data)

\* what a caller passes as data
DataChoices == IF dataKind = "number" THEN Values ELSE Collections

\* appends the model lets happen: one less when the data are collections, and
\* one less when there are two heaps
AppendCap ==
    MaxAppends - (IF dataKind = "collection" THEN 1 ELSE 0)
               - (IF other.built THEN 1 ELSE 0)

\* Sorter.append with Min.handle_limit
MinAppend(node, l, items) ==
    LET added == Append(items, node)
    IN  IF ReachedLimit(l, added) THEN Pop(added, IndexMax(added)) ELSE added

\* Sorter.append with Max.handle_limit
MaxAppend(node, l, items) ==
    LET added == Append(items, node)
    IN  IF ReachedLimit(l, added) THEN Pop(added, IndexMin(added)) ELSE added

\* MinHeap.append
MinHeapAppend(node, l, items) ==
    LET added == HeapPush(items, node)
    IN  IF ReachedLimit(l, added) THEN Pop(added, IndexMax(added)) ELSE added

\* variant of MaxHeapAppend: the root is popped as if the list were still a heap
MaxHeapAppendPopsRoot(node, l, items) ==
    LET added == HeapPush(items, node)
    IN  IF ReachedLimit(l, added) THEN Pop(added, 1) ELSE added

\* MaxHeap.append
MaxHeapAppend(node, l, items) ==
    LET added == HeapPush(items, node)
    IN  IF ReachedLimit(l, added) THEN Pop(added, IndexMin(added)) ELSE added

\* variant of RandomAppend: randint(0, len(items) - 2), the node just appended
\* is never the one popped
RandomAppendKeepsNew(node, l, items) ==
    LET added == Append(items, node)
    IN  IF ReachedLimit(l, added)
        THEN { Pop(added, i) : i \in 1..(Len(added) - 1) }
        ELSE { added }

\* variant of RandomAppend: handle_limit pops from a copy, the list keeps all
RandomAppendNoEvict(node, l, items) == { Append(items, node) }

\* Sorter.append with Random.handle_limit: every list the call may leave,
\* one per value randint(0, len(items) - 1) can return
RandomAppend(node, l, items) ==
    LET added == Append(items, node)
    IN  IF ReachedLimit(l, added)
        THEN { Pop(added, i) : i \in 1..Len(added) }
        ELSE { added }

\* the lists sorter.append(node, heap) may leave in heap.nodes
SorterAppend(cls, node, l, items) ==
    CASE cls = "Min" -> { MinAppend(node, l, items) }
      [] cls = "Max" -> { MaxAppend(node, l, items) }
      [] cls = "MinHeap" -> { MinHeapAppend(node, l, items) }
      [] cls = "MaxHeap" -> { MaxHeapAppend(node, l, items) }
      [] cls = "Random" -> RandomAppend(node, l, items)

\* Heap.append(key, data); sum(data) raises TypeError when data is a number,
\* and the caller stops there
HeapAppend(key, data) ==
    /\ pc = "heap"
    /\ Len(hist) + other.appends < AppendCap
    /\ IF aggregator = "sum" /\ dataKind = "number"
       THEN /\ pc' = "TypeError"
            /\ UNCHANGED <<nodes, hist, datas>>
       ELSE LET node == HeapNode(key, Aggregate(aggregator, data))
            IN  /\ nodes' \in SorterAppend(sorter, node, limit, nodes)
                /\ hist' = Append(hist, node)
                /\ datas' = Append(datas, data)
                /\ pc' = pc
    /\ UNCHANGED <<genpc, pending, emitted, snapLen, drained, other, nodes2, fixed>>

\* append(key, data) on the second heap, whose nodes field is list number
\* other.list
OtherAppend(key, data) ==
    /\ pc = "heap"
    /\ other.built
    /\ Len(hist) + other.appends < AppendCap
    /\ IF aggregator = "sum" /\ dataKind = "number"
       THEN /\ pc' = "TypeError"
            /\ UNCHANGED <<nodes, nodes2, other>>
       ELSE LET node == HeapNode(key, Aggregate(aggregator, data))
            IN  /\ IF other.list = 1
                   THEN /\ nodes' \in SorterAppend(other.sorter, node, other.limit, nodes)
                        /\ nodes2' = nodes2
                   ELSE /\ nodes2' \in SorterAppend(other.sorter, node, other.limit, nodes2)
                        /\ nodes' = nodes
                /\ other' = [other EXCEPT !.appends = @ + 1]
                /\ pc' = pc
    /\ UNCHANGED <<hist, datas, genpc, pending, emitted, snapLen, drained, fixed>>

\* all orders of the items of a list
Permutations(items) ==
    { [i \in 1..Len(items) |-> items[p[i]]] :
        p \in { q \in [1..Len(items) -> 1..Len(items)] :
                  \A a, b \in 1..Len(items) : a # b => q[a] # q[b] } }

\* Random.sort: sorted(items, key=lambda _: random()), a shuffled copy
RandomSort(items) == Permutations(items)

\* the lists sorter.sort(items, limit) may return
SorterSort(cls, items, l) ==
    CASE cls = "Min" -> { NSmallest(l, items) }
      [] cls = "Max" -> { NLargest(l, items) }
      [] cls = "MinHeap" -> { NSmallest(l, items) }
      [] cls = "MaxHeap" -> { NLargest(l, items) }
      [] cls = "Random" -> RandomSort(items)

\* heap.top_n() / iter(heap): a generator object, none of its body has run
TopN ==
    /\ pc = "heap"
    /\ genpc \in {"none", "done"}
    /\ genpc' = "created"
    /\ pending' = <<>>
    /\ emitted' = <<>>
    /\ drained' = (drained \/ genpc = "done")
    /\ snapLen' = Len(hist)
    /\ UNCHANGED <<pc, nodes, hist, datas, other, nodes2, fixed>>

\* what one next() does once the sorted copy is `items`
Resume(items) ==
    IF items = <<>>
    THEN /\ genpc' = "done"
         /\ pending' = <<>>
         /\ emitted' = emitted
    ELSE /\ genpc' = "running"
         /\ pending' = Tail(items)
         /\ emitted' = Append(emitted, Head(items))

\* variant of GenNext: the sorted copy is taken out of the heap (a drain that
\* pops), so the first next() leaves heap.nodes empty
GenNextDestructive ==
    /\ pc = "heap"
    /\ \/ /\ genpc = "created"
          /\ \E items \in SorterSort(sorter, nodes, limit) : Resume(items)
          /\ snapLen' = Len(hist)
          /\ nodes' = <<>>
       \/ /\ genpc = "running"
          /\ Resume(pending)
          /\ snapLen' = snapLen
          /\ nodes' = nodes
    /\ UNCHANGED <<pc, hist, drained, datas, other, nodes2, fixed>>

\* variant of GenNext: no copy is kept, every next() sorts the nodes the heap
\* holds by then and yields the item after those already emitted
GenNextLive ==
    /\ pc = "heap"
    /\ genpc \in {"created", "running"}
    /\ \E items \in SorterSort(sorter, nodes, limit) :
           Resume(SubSeq(items, Len(emitted) + 1, Len(items)))
    /\ snapLen' = (IF genpc = "created" THEN Len(hist) ELSE snapLen)
    /\ UNCHANGED <<pc, nodes, hist, drained, datas, other, nodes2, fixed>>

\* next() on the generator: the first one runs sorter.sort(self.nodes,
\* self.limit), each one yields the key of the next item or stops
GenNext ==
    /\ pc = "heap"
    /\ \/ /\ genpc = "created"
          /\ \E items \in SorterSort(sorter, nodes, limit) : Resume(items)
          /\ snapLen' = Len(hist)
       \/ /\ genpc = "running"
          /\ Resume(pending)
          /\ snapLen' = snapLen
    /\ UNCHANGED <<pc, nodes, hist, drained, datas, other, nodes2, fixed>>

----------------------------------------------------------------------------

\* the state before HeapFactory.get is called, for a caller whose data are
\* of the given kind
InitWith(kind) ==
    /\ dataKind = kind
    /\ given = "None"
    /\ aggregator = "None"
    /\ datas = <<>>
    /\ other = [built |-> FALSE, sorter |-> "None", limit |-> 0, list |-> 0,
                appends |-> 0]
    /\ nodes2 = <<>>
    /\ sort_type = <<>>
    /\ pc = "start"
    /\ sorter = "None"
    /\ limit = 0
    /\ nodes = <<>>
    /\ hist = <<>>
    /\ genpc = "none"
    /\ pending = <<>>
    /\ emitted = <<>>
    /\ snapLen = 0
    /\ drained = FALSE

\* the limits of two heaps side by side: the least and the greatest positive
OtherLimits == {1, MaxLimit}

\* the sorter classes SortType names
SorterClasses == { SortType[n] : n \in DOMAIN SortType }

\* a caller that passes numbers (scores it aggregated itself)
Init == InitWith("number")

\* a caller that passes collections of numbers
InitAgg == InitWith("collection")

Next ==
    \/ \E name \in SortTypeNames : Get(name)
    \/ \E l \in Limits, agg \in AggregatorArgs : Ctor(l, agg)
    \/ \E key \in KeyChoices(hist), data \in DataChoices : HeapAppend(key, data)
    \/ TopN
    \/ GenNext

\* the same with two heaps from one constructor
NextTwo ==
    \/ \E name \in SortTypeNames : Get(name)
    \/ \E l \in OtherLimits, l2 \in OtherLimits, agg \in AggregatorArgs,
          cls2 \in SorterClasses : CtorTwice(l, l2, agg, cls2)
    \/ \E key \in KeyChoices(hist), data \in DataChoices : HeapAppend(key, data)
    \/ \E data \in DataChoices : OtherAppend(other.appends + 1, data)
    \/ TopN
    \/ GenNext

Spec == Init /\ [][Next]_vars

SpecAgg == InitAgg /\ [][Next]_vars

SpecTwo == Init /\ [][NextTwo]_vars

----------------------------------------------------------------------------
(* Vocabulary of the properties *)

MaxRetaining == sorter \in {"Max", "MaxHeap"}

MinRetaining == sorter \in {"Min", "MinHeap"}

Min2(a, b) == IF a < b THEN a ELSE b

Max0(a) == IF a < 0 THEN 0 ELSE a

\* number of nodes of s whose value is v / above v / below v
CountVal(s, v) == Cardinality({i \in 1..Len(s) : s[i].value = v})

CountAbove(s, v) == Cardinality({i \in 1..Len(s) : s[i].value > v})

CountBelow(s, v) == Cardinality({i \in 1..Len(s) : s[i].value < v})

\* how often v occurs among the n largest / n smallest values of s
InLargest(s, n, v) == Min2(CountVal(s, v), Max0(n - CountAbove(s, v)))

InSmallest(s, n, v) == Min2(CountVal(s, v), Max0(n - CountBelow(s, v)))

Range(s) == {s[i] : i \in 1..Len(s)}

CountNode(s, x) == Cardinality({i \in 1..Len(s) : s[i] = x})

\* s and t hold the same nodes, each as often
SameNodes(s, t) ==
    /\ Len(s) = Len(t)
    /\ \A x \in Range(s) \cup Range(t) : CountNode(s, x) = CountNode(t, x)

NonIncreasing(s) == \A i, j \in 1..Len(s) : i < j => s[i].value >= s[j].value

NonDecreasing(s) == \A i, j \in 1..Len(s) : i < j => s[i].value <= s[j].value

DistinctKeys(s) == \A i, j \in 1..Len(s) : i # j => s[i].key # s[j].key

\* the appends the running or finished generator saw when it sorted
Seen == SubSeq(hist, 1, snapLen)

\* the name handed to get is no member of SortType once upper-cased
Unrecognized == pc # "start" /\ Upper(sort_type) \notin DOMAIN SortType

----------------------------------------------------------------------------
(* C1: for a heap with limit >= 1 and any sorter, len(heap) <= limit after *)
(* every append.                                                           *)
C1_LenAtMostLimit ==
    (pc = "heap" /\ limit >= 1) => Len(nodes) <= limit

\* a heap that holds limit nodes after more than limit appends
C1_Witness ==
    pc = "heap" /\ limit >= 1 /\ Len(hist) > limit /\ Len(nodes) = limit

(* C2: Max and MaxHeap with limit >= 1: the values retained are, as a      *)
(* multiset, the limit largest values appended so far.                     *)
C2_MaxRetainsLargest ==
    (pc = "heap" /\ MaxRetaining /\ limit >= 1) =>
        \A v \in Values : CountVal(nodes, v) = InLargest(hist, limit, v)

\* an overflow in which a node that is neither the newest nor the oldest went
C2_Witness ==
    /\ pc = "heap" /\ MaxRetaining /\ limit = 2 /\ Len(hist) = 3
    /\ hist[2].value < hist[1].value /\ hist[2].value < hist[3].value
    /\ CountVal(nodes, hist[2].value) = 0

(* C3: Min and MinHeap with limit >= 1: the values retained are, as a      *)
(* multiset, the limit smallest values appended so far.                    *)
C3_MinRetainsSmallest ==
    (pc = "heap" /\ MinRetaining /\ limit >= 1) =>
        \A v \in Values : CountVal(nodes, v) = InSmallest(hist, limit, v)

\* an overflow in which a node that is neither the newest nor the oldest went
C3_Witness ==
    /\ pc = "heap" /\ MinRetaining /\ limit = 2 /\ Len(hist) = 3
    /\ hist[2].value > hist[1].value /\ hist[2].value > hist[3].value
    /\ CountVal(nodes, hist[2].value) = 0

(* C4: Max and MaxHeap: the values of the keys the iteration emits never   *)
(* increase.                                                               *)
C4_MaxEmitsNonIncreasing ==
    (pc = "heap" /\ MaxRetaining) => NonIncreasing(emitted)

\* a finished iteration that emitted two different values appended in the
\* opposite order
C4_Witness ==
    /\ pc = "heap" /\ MaxRetaining /\ genpc = "done" /\ Len(emitted) = 2
    /\ emitted[1].value > emitted[2].value
    /\ Len(hist) >= 2 /\ hist[1] = emitted[2] /\ hist[2] = emitted[1]

(* C5: Min and MinHeap: the values of the keys the iteration emits never   *)
(* decrease.                                                               *)
C5_MinEmitsNonDecreasing ==
    (pc = "heap" /\ MinRetaining) => NonDecreasing(emitted)

\* a finished iteration that emitted two different values appended in the
\* opposite order
C5_Witness ==
    /\ pc = "heap" /\ MinRetaining /\ genpc = "done" /\ Len(emitted) = 2
    /\ emitted[1].value < emitted[2].value
    /\ Len(hist) >= 2 /\ hist[1] = emitted[2] /\ hist[2] = emitted[1]

(* C6 as stated: once an iteration has been consumed to its end the heap   *)
(* is empty, and an iteration obtained after that emits nothing.           *)
C6_DrainEmpties ==
    (pc = "heap" /\ genpc = "done") =>
        /\ Len(nodes) = 0
        /\ (drained => emitted = <<>>)

(* C6 amended: iterating does not consume the heap.  Once an iteration has *)
(* been consumed to its end, and nothing was appended since it sorted, the *)
(* heap still holds exactly the nodes whose keys were emitted, and this is *)
(* so for a second iteration as for the first.                             *)
C6_DrainKeepsNodes ==
    (pc = "heap" /\ genpc = "done" /\ snapLen = Len(hist)) =>
        SameNodes(emitted, nodes)

\* a second iteration consumed to its end that emitted two keys
C6_Witness ==
    /\ pc = "heap" /\ genpc = "done" /\ snapLen = Len(hist)
    /\ drained /\ Len(emitted) = 2 /\ Len(nodes) = 2

(* C7 as stated: no heap exists whose limit is zero or negative.           *)
C7_NoHeapWithoutPositiveLimit ==
    ~(pc = "heap" /\ limit <= 0)

(* C7 amended: a limit that is zero or negative is accepted for every      *)
(* sorter; the heap built with it takes appends and retains nothing, its   *)
(* length is 0 after every append and its iteration emits nothing.         *)
C7_NonPositiveLimitRetainsNothing ==
    (pc = "heap" /\ limit <= 0) => (nodes = <<>> /\ emitted = <<>>)

\* a heap of negative limit after two appends and a finished iteration
C7_Witness ==
    pc = "heap" /\ limit < 0 /\ Len(hist) = 2 /\ genpc = "done" /\ snapLen = 2

(* C8: Random with limit >= 1 and pairwise distinct keys: a finished       *)
(* iteration emitted min(limit, number of appends) keys, each one an       *)
(* appended key, none twice.                                               *)
C8_RandomEmits ==
    (pc = "heap" /\ sorter = "Random" /\ limit >= 1 /\ genpc = "done"
        /\ DistinctKeys(Seen)) =>
        /\ Len(emitted) = Min2(limit, snapLen)
        /\ \A i \in 1..Len(emitted) : emitted[i] \in Range(Seen)
        /\ DistinctKeys(emitted)

\* a finished iteration of a random heap that overflowed, whose first key
\* is not that of the oldest survivor
C8_Witness ==
    /\ pc = "heap" /\ sorter = "Random" /\ limit = 2 /\ genpc = "done"
    /\ snapLen = 3 /\ DistinctKeys(Seen) /\ Len(emitted) = 2
    /\ emitted[1] = hist[3]

(* C9 as stated: a name that is no member of SortType yields a constructor *)
(* of max-retaining heaps and no error.                                    *)
C9_UnknownNameFallsBackToMax ==
    Unrecognized => (pc # "KeyError" /\ sorter = "Max")

(* C9 amended: a name that, upper-cased, is no member of SortType makes    *)
(* get raise KeyError; no constructor is returned and no sorter is bound.  *)
C9_UnknownNameRaisesKeyError ==
    Unrecognized => (pc = "KeyError" /\ sorter = "None")

\* get was called with "maxheap"
C9_Witness ==
    pc = "KeyError" /\ sort_type = <<109, 97, 120, 104, 101, 97, 112>>

(* C10: any sorter, at most limit appends: nothing is evicted, and a       *)
(* finished iteration emitted exactly the appended nodes, each once, in    *)
(* the order of the sorter.                                                *)
C10_NoEvictionUnderLimit ==
    /\ (pc = "heap" /\ Len(hist) <= limit) => SameNodes(nodes, hist)
    /\ (pc = "heap" /\ genpc = "done" /\ snapLen <= limit) =>
          /\ SameNodes(emitted, Seen)
          /\ MaxRetaining => NonIncreasing(emitted)
          /\ MinRetaining => NonDecreasing(emitted)

\* a heap filled exactly to its limit of two and iterated to the end
C10_Witness ==
    /\ pc = "heap" /\ limit = 2 /\ Len(hist) = 2 /\ snapLen = 2
    /\ genpc = "done" /\ Len(emitted) = 2

----------------------------------------------------------------------------
(* Vocabulary of the properties about one append *)

\* s without its i-th item
RemoveAt(s, i) == SubSeq(s, 1, i - 1) \o SubSeq(s, i + 1, Len(s))

\* this step is a call of append on a heap built with a limit of at least 1
\* that already holds limit nodes
AppendAtCapacity ==
    pc = "heap" /\ limit >= 1 /\ Len(nodes) = limit /\ Len(hist') = Len(hist) + 1

\* the node the append of this step was called with
NewNode == hist'[Len(hist')]

\* the least / greatest value among the nodes of a non-empty list
LeastValue(s) == CHOOSE v \in Range(s) : \A x \in Range(s) : v.value <= x.value

GreatestValue(s) == CHOOSE v \in Range(s) : \A x \in Range(s) : v.value >= x.value

\* the step put NewNode in the place of one retained node of minimal value
ReplacedAMinimum ==
    \E i \in 1..Len(nodes) :
        /\ nodes[i].value = LeastValue(nodes).value
        /\ SameNodes(nodes', Append(RemoveAt(nodes, i), NewNode))

\* t is s with some items left out, the others in their order
RECURSIVE IsSubSeq(_, _)
IsSubSeq(t, s) ==
    IF t = <<>> THEN TRUE
    ELSE IF s = <<>> THEN FALSE
    ELSE IF Head(t) = Head(s) /\ IsSubSeq(Tail(t), Tail(s)) THEN TRUE
    ELSE IsSubSeq(t, Tail(s))

\* position of the first item of s whose value is v
FirstWithValue(s, v) ==
    CHOOSE i \in 1..Len(s) : s[i].value = v /\ \A j \in 1..(i - 1) : s[j].value # v

----------------------------------------------------------------------------
(* C11: for every sorter and limit >= 1, len(heap) is min(number of        *)
(* appends, limit) after every append.                                     *)
C11_LenIsMinOfAppendsAndLimit ==
    (pc = "heap" /\ limit >= 1) => Len(nodes) = Min2(Len(hist), limit)

\* a heap of limit 2 that still holds 2 nodes after two overflowing appends
C11_Witness ==
    pc = "heap" /\ limit = 2 /\ Len(hist) = 4 /\ Len(nodes) = 2

(* C13 as stated: Max and MaxHeap, append on a heap that holds limit       *)
(* nodes: a new node that is not smaller than the retained minimum takes   *)
(* the place of one retained node of minimal value; a smaller one is       *)
(* dropped and the retained nodes are the same.                            *)
C13_NewNodeKeptUnlessSmaller ==
    [][ (AppendAtCapacity /\ MaxRetaining) =>
            IF NewNode.value >= LeastValue(nodes).value
            THEN ReplacedAMinimum
            ELSE SameNodes(nodes', nodes) ]_vars

(* C13 amended: as stated for Max, and for MaxHeap when the new node is    *)
(* greater or smaller than the retained minimum; a new node equal to the   *)
(* retained minimum is, with MaxHeap, either kept in the place of a        *)
(* retained node of that value or dropped itself.                          *)
C13_NewNodeKeptUnlessSmallerOrTiedInHeap ==
    [][ (AppendAtCapacity /\ MaxRetaining) =>
            IF NewNode.value > LeastValue(nodes).value
            THEN ReplacedAMinimum
            ELSE IF NewNode.value < LeastValue(nodes).value
            THEN SameNodes(nodes', nodes)
            ELSE IF sorter = "Max"
            THEN ReplacedAMinimum
            ELSE ReplacedAMinimum \/ SameNodes(nodes', nodes) ]_vars

\* a MaxHeap of limit 2 dropped a fourth node whose value equals the
\* retained minimum
C13_Witness ==
    /\ pc = "heap" /\ sorter = "MaxHeap" /\ limit = 2 /\ Len(hist) = 4
    /\ hist[4] \notin Range(nodes)
    /\ hist[4].value = LeastValue(nodes).value

(* C16: Min and Max, an append that overflows the heap: the node evicted   *)
(* is the earliest appended of those that tie for the extreme value (the   *)
(* greatest for Min, the least for Max); the list is in append order.      *)
C16_EarliestTiedEvicted ==
    [][ (AppendAtCapacity /\ sorter \in {"Min", "Max"}) =>
            LET added == Append(nodes, NewNode)
                extreme == IF sorter = "Min" THEN GreatestValue(added).value
                           ELSE LeastValue(added).value
            IN  /\ IsSubSeq(nodes, hist)
                /\ nodes' = RemoveAt(added, FirstWithValue(added, extreme)) ]_vars

\* Min of limit 2: the third node ties with the first for the greatest
\* value, the first one went and the third stays
C16_Witness ==
    /\ pc = "heap" /\ sorter = "Min" /\ limit = 2 /\ Len(hist) = 3
    /\ hist[1].value = hist[3].value /\ hist[2].value < hist[1].value
    /\ hist[1].key # hist[3].key
    /\ nodes = <<hist[2], hist[3]>>

(* C14: Random, append on a heap that holds limit nodes: the new node is   *)
(* appended and exactly one of the limit + 1 nodes is removed, the others  *)
(* stay as they are and in their order; and each of the limit + 1 nodes,   *)
(* the new one, the first and the last included, can be the one removed.   *)
C14_RandomEvictsAnyOne ==
    [][ (sorter = "Random" /\ AppendAtCapacity) =>
            /\ \E i \in 1..(limit + 1) :
                  nodes' = RemoveAt(Append(nodes, NewNode), i)
            /\ \A i \in 1..(limit + 1) :
                  RemoveAt(Append(nodes, NewNode), i)
                      \in SorterAppend(sorter, NewNode, limit, nodes) ]_vars

\* a random heap of limit 2 whose third append removed the node just appended
C14_Witness ==
    /\ pc = "heap" /\ sorter = "Random" /\ limit = 2 /\ Len(hist) = 3
    /\ nodes = <<hist[1], hist[2]>>
    /\ hist[3] \notin Range(nodes)

\* the list-based sorter that retains the same end as a heapq-based one
ListTwin(cls) == IF cls = "MaxHeap" THEN "Max" ELSE "Min"

\* heap.nodes of a Min or Max heap of limit l after the appends h
RECURSIVE ListReplay(_, _, _)
ListReplay(cls, l, h) ==
    IF h = <<>> THEN <<>>
    ELSE LET before == ListReplay(cls, l, SubSeq(h, 1, Len(h) - 1))
         IN  IF cls = "Max" THEN MaxAppend(h[Len(h)], l, before)
             ELSE MinAppend(h[Len(h)], l, before)

\* the values of the nodes of s, in order
Scores(s) == [i \in 1..Len(s) |-> s[i].value]

\* the one list sorter.sort returns for a sorter that is not Random
SortOf(cls, items, l) == CHOOSE r \in SorterSort(cls, items, l) : TRUE

(* C15: MinHeap against Min and MaxHeap against Max, limit >= 1, same      *)
(* appends: after every append both retain the same multiset of values,    *)
(* iterating both at that point gives the same sequence of values, and     *)
(* what an iteration of the heapq-based heap emits is what the list-based  *)
(* one would emit.                                                         *)
C15_HeapqTwinsAgreeOnScores ==
    (pc = "heap" /\ sorter \in {"MinHeap", "MaxHeap"} /\ limit >= 1) =>
        LET twin == ListReplay(ListTwin(sorter), limit, hist)
            seen == ListReplay(ListTwin(sorter), limit, Seen)
        IN  /\ \A v \in Values : CountVal(nodes, v) = CountVal(twin, v)
            /\ Scores(SortOf(sorter, nodes, limit))
                   = Scores(SortOf(ListTwin(sorter), twin, limit))
            /\ genpc \in {"running", "done"} =>
                   Scores(emitted \o pending)
                       = Scores(SortOf(ListTwin(sorter), seen, limit))

\* a MaxHeap that overflowed twice and does not retain the nodes its twin
\* retains, iterated to the end
C15_Witness ==
    /\ pc = "heap" /\ sorter = "MaxHeap" /\ limit = 2 /\ Len(hist) = 4
    /\ Range(nodes) # Range(ListReplay("Max", 2, hist))
    /\ genpc = "done" /\ snapLen = 4 /\ Len(emitted) = 2

----------------------------------------------------------------------------
(* C12 as stated: a heap constructed without an aggregator aggregates with *)
(* the sum: every node appended with a collection of numbers as data has   *)
(* the sum of the elements of data as its score.                           *)
C12_DefaultAggregatorIsSum ==
    (pc = "heap" /\ given = "None") =>
        /\ aggregator = "sum"
        /\ \A i \in 1..Len(hist) : hist[i].value = Sum(datas[i])

(* C12: a heap constructed without an aggregator aggregates with           *)
(* Aggregators.dummy, the identity: the score of every node it appends is  *)
(* the data itself; the score is the sum of the elements of data only for  *)
(* a heap constructed with the sum aggregator.                             *)
C12_DefaultAggregatorIsDummy ==
    pc = "heap" =>
        /\ aggregator = (IF given = "None" THEN "dummy" ELSE "sum")
        /\ \A i \in 1..Len(hist) :
               hist[i].value = (IF given = "None" THEN datas[i] ELSE Sum(datas[i]))

\* a Max heap of limit 1 constructed without an aggregator that was given
\* [2, 1] and then [1, 2]: it stores the lists themselves and keeps the
\* first, the greater list, where equal sums would have kept the second
C12_Witness ==
    /\ pc = "heap" /\ given = "None" /\ sorter = "Max" /\ limit = 1
    /\ Len(hist) = 2
    /\ datas = << <<2, 1>>, <<1, 2>> >>
    /\ hist[1].value = <<2, 1>> /\ hist[2].value = <<1, 2>>
    /\ nodes = <<hist[1]>>

----------------------------------------------------------------------------
\* the nodes field of the second heap
OtherNodes == IF other.list = 1 THEN nodes ELSE nodes2

(* C17: with two heaps, built by one constructor (one sorter instance) or  *)
(* by the constructors of two get calls, an append or a step of a drain on *)
(* one heap leaves the nodes, the length and the limit of the other heap   *)
(* as they were.                                                           *)
C17_HeapsIsolated ==
    [][(pc = "heap" /\ other.built) =>
          /\ other'.appends = other.appends =>
                 (OtherNodes' = OtherNodes /\ other'.limit = other.limit)
          /\ other'.appends # other.appends =>
                 (nodes' = nodes /\ limit' = limit)]_vars

\* two heaps of one constructor that both hold nodes, after the first one
\* evicted a node and was drained to the end
C17_Witness ==
    /\ pc = "heap" /\ other.built /\ other.sorter = sorter
    /\ Len(hist) > Len(nodes) /\ Len(nodes) >= 1
    /\ other.appends >= 1 /\ Len(OtherNodes) = other.appends
    /\ genpc = "done" /\ Len(emitted) >= 1
    /\ Range(OtherNodes) \cap Range(nodes) = {}

----------------------------------------------------------------------------
\* what the drain has emitted and what it goes on to emit
DrainSequence == emitted \o pending

(* C18: the sequence a drain emits is fixed when its first element is      *)
(* requested: that request sorts the nodes the heap holds at that moment,  *)
(* appends made since the iterator was obtained included, and from then on *)
(* no append and no further request changes the sequence.                  *)
C18_DrainFixedAtFirstNext ==
    [][pc = "heap" =>
          /\ (genpc = "created" /\ genpc' # "created") =>
                 /\ snapLen' = Len(hist)
                 /\ DrainSequence' \in SorterSort(sorter, nodes, limit)
          /\ (genpc \in {"running", "done"} /\ genpc' # "created") =>
                 /\ DrainSequence' = DrainSequence
                 /\ snapLen' = snapLen]_vars

\* a partly consumed drain of a heap that has since been appended to: the
\* heap holds a node the drain will not emit, and the drain still has to
\* emit or has emitted a node the heap no longer holds
C18_Witness ==
    /\ pc = "heap" /\ genpc = "running" /\ Len(emitted) >= 1 /\ Len(pending) >= 1
    /\ Len(hist) > snapLen
    /\ hist[Len(hist)] \in Range(nodes) \ Range(DrainSequence)
    /\ Range(DrainSequence) \ Range(nodes) # {}

====
